---- MODULE Spec2Model ----
(***************************************************************************)
(* Client events of openvpn/client/clievent.hpp: the Type enumeration, the *)
(* name table, the event class hierarchy (Base, the variants without data, *)
(* Connected, ReasonBase and its subclasses) and the Queue interface.      *)
(*                                                                         *)
(* An event object is a record: cls is its dynamic type, id_ the private   *)
(* member of Base, and the other fields are the public data members of its *)
(* class.  Objects live in heap; a Base::Ptr is an index into heap, and    *)
(* NULL is 0.  std::string values are TLA+ strings.                        *)
(***************************************************************************)
EXTENDS Integers, Sequences, FiniteSets, TLC

VARIABLES heap, observed, pushed, calls, nwrites, ret

vars == <<heap, observed, pushed, calls, nwrites, ret>>

-----------------------------------------------------------------------------
(* Bounds of the model *)

\* number of event objects ever constructed
MaxEvents == 1
\* number of assignments to public data members
MaxWrites == 1
\* number of add_event invocations
MaxCalls == 2
\* largest ordinal of a Type value handed to a constructor directly
MaxOrdinal == 25

Producers == {"p1", "p2"}
ReasonTexts == {"", "bad password"}
FieldTexts == {"", "x"}
RenderTexts == {"", "a", "b"}

-----------------------------------------------------------------------------
(* enum Type *)

DISCONNECTED == 0
CONNECTED == DISCONNECTED + 1
RECONNECTING == CONNECTED + 1
RESOLVE == RECONNECTING + 1
WAIT == RESOLVE + 1
WAIT_PROXY == WAIT + 1
CONNECTING == WAIT_PROXY + 1
GET_CONFIG == CONNECTING + 1
ASSIGN_IP == GET_CONFIG + 1
ADD_ROUTES == ASSIGN_IP + 1
PAUSE == ADD_ROUTES + 1
RESUME == PAUSE + 1
AUTH_FAILED == RESUME + 1
CERT_VERIFY_FAIL == AUTH_FAILED + 1
CLIENT_HALT == CERT_VERIFY_FAIL + 1
CLIENT_RESTART == CLIENT_HALT + 1
CONNECTION_TIMEOUT == CLIENT_RESTART + 1
INACTIVE_TIMEOUT == CONNECTION_TIMEOUT + 1
DYNAMIC_CHALLENGE == INACTIVE_TIMEOUT + 1
PROXY_NEED_CREDS == DYNAMIC_CHALLENGE + 1
PROXY_ERROR == PROXY_NEED_CREDS + 1
TUN_SETUP_FAILED == PROXY_ERROR + 1
TUN_IFACE_CREATE == TUN_SETUP_FAILED + 1
EPKI_ERROR == TUN_IFACE_CREATE + 1
EPKI_INVALID_ALIAS == EPKI_ERROR + 1
N_TYPES == EPKI_INVALID_ALIAS + 1

ERROR_START == AUTH_FAILED

\* The values a Type can hold in this model: the declared enumerators and the
\* ordinals above them (the enumeration has no negative enumerator).
Type == DISCONNECTED..MaxOrdinal

NULL == 0

-----------------------------------------------------------------------------
(* event_name *)

names ==
  << "DISCONNECTED",
     "CONNECTED",
     "RECONNECTING",
     "RESOLVE",
     "WAIT",
     "WAIT_PROXY",
     "CONNECTING",
     "GET_CONFIG",
     "ASSIGN_IP",
     "ADD_ROUTES",
     "PAUSE",
     "RESUME",
     "AUTH_FAILED",
     "CERT_VERIFY_FAIL",
     "CLIENT_HALT",
     "CLIENT_RESTART",
     "CONNECTION_TIMEOUT",
     "INACTIVE_TIMEOUT",
     "DYNAMIC_CHALLENGE",
     "PROXY_NEED_CREDS",
     "PROXY_ERROR",
     "TUN_SETUP_FAILED",
     "TUN_IFACE_CREATE",
     "EPKI_ERROR",
     "EPKI_INVALID_ALIAS" >>

\* event_name with the bound of the table one short
event_name_short(type) ==
  IF type < N_TYPES - 1
    THEN names[type + 1]
    ELSE "UNKNOWN_EVENT_TYPE"

\* names[] is a C array indexed from 0; the tuple is indexed from 1.
event_name(type) ==
  IF type < N_TYPES
    THEN names[type + 1]
    ELSE "UNKNOWN_EVENT_TYPE"

-----------------------------------------------------------------------------
(* class Base and the events without additional data *)

Base(id) == [cls |-> "Base", id_ |-> id]

\* a subclass constructor: the base subobject b becomes part of an object of
\* dynamic type c
Derived(b, c) == [b EXCEPT !.cls = c]

Resolve == Derived(Base(RESOLVE), "Resolve")
Wait == Derived(Base(WAIT), "Wait")
WaitProxy == Derived(Base(WAIT_PROXY), "WaitProxy")
Connecting == Derived(Base(CONNECTING), "Connecting")
Reconnecting == Derived(Base(RECONNECTING), "Reconnecting")
GetConfig == Derived(Base(GET_CONFIG), "GetConfig")
AssignIP == Derived(Base(ASSIGN_IP), "AssignIP")
AddRoutes == Derived(Base(ADD_ROUTES), "AddRoutes")
Pause == Derived(Base(PAUSE), "Pause")
Resume == Derived(Base(RESUME), "Resume")
Disconnected == Derived(Base(DISCONNECTED), "Disconnected")
ConnectionTimeout == Derived(Base(CONNECTION_TIMEOUT), "ConnectionTimeout")
InactiveTimeout == Derived(Base(INACTIVE_TIMEOUT), "InactiveTimeout")

-----------------------------------------------------------------------------
(* struct Connected *)

ConnectedFields ==
  { "user", "server_host", "server_port", "server_proto", "server_ip",
    "vpn_ip4", "vpn_ip6", "client_ip", "tun_name" }

\* Connected() : Base(CONNECTED) {} -- the nine std::string members are
\* default-constructed, that is empty
Connected ==
  [ cls |-> "Connected", id_ |-> Base(CONNECTED).id_,
    user |-> "", server_host |-> "", server_port |-> "", server_proto |-> "",
    server_ip |-> "", vpn_ip4 |-> "", vpn_ip6 |-> "", client_ip |-> "",
    tun_name |-> "" ]

-----------------------------------------------------------------------------
(* struct ReasonBase and its subclasses *)

ReasonBase(id, reason_arg) ==
  [cls |-> "ReasonBase", id_ |-> Base(id).id_, reason |-> reason_arg]

AuthFailed(reason) == Derived(ReasonBase(AUTH_FAILED, reason), "AuthFailed")
CertVerifyFail(reason) == Derived(ReasonBase(CERT_VERIFY_FAIL, reason), "CertVerifyFail")
ClientHalt(reason) == Derived(ReasonBase(CLIENT_HALT, reason), "ClientHalt")
ClientRestart(reason) == Derived(ReasonBase(CLIENT_RESTART, reason), "ClientRestart")
DynamicChallenge(reason) == Derived(ReasonBase(DYNAMIC_CHALLENGE, reason), "DynamicChallenge")
\* ProxyError with the kind of its neighbour in the enumeration
ProxyError_swapped(reason) == Derived(ReasonBase(PROXY_NEED_CREDS, reason), "ProxyError")
ProxyError(reason) == Derived(ReasonBase(PROXY_ERROR, reason), "ProxyError")
ProxyNeedCreds(reason) == Derived(ReasonBase(PROXY_NEED_CREDS, reason), "ProxyNeedCreds")
TunSetupFailed(reason) == Derived(ReasonBase(TUN_SETUP_FAILED, reason), "TunSetupFailed")
TunIfaceCreate(reason) == Derived(ReasonBase(TUN_IFACE_CREATE, reason), "TunIfaceCreate")
EpkiError(reason) == Derived(ReasonBase(EPKI_ERROR, reason), "EpkiError")
EpkiInvalidAlias(reason) == Derived(ReasonBase(EPKI_INVALID_ALIAS, reason), "EpkiInvalidAlias")

-----------------------------------------------------------------------------
(* member functions of Base *)

id(ev) == ev.id_

name(ev) == event_name(ev.id_)

\* is_error with a strict comparison
is_error_strict(ev) == ev.id_ > ERROR_START

\* is_error with the band starting one kind early
is_error_early(ev) == ev.id_ >= ERROR_START - 1

is_error(ev) == ev.id_ >= ERROR_START

\* Base::render returning the name of the event
Base_render_name(ev) == event_name(ev.id_)

\* Base::render
Base_render(ev) == ""

\* std::ostringstream: operator<< appends its argument to the buffer
StreamInsert(out, s) == out \o s

\* Connected::render with the protocol before the client address
Connected_render_swapped(ev) ==
  LET o0 == ""
      o1 == StreamInsert(o0, ev.user)
      o2 == StreamInsert(o1, "@")
      o3 == StreamInsert(o2, ev.server_host)
      o4 == StreamInsert(o3, ":")
      o5 == StreamInsert(o4, ev.server_port)
      o6 == StreamInsert(o5, " (")
      o7 == StreamInsert(o6, ev.server_ip)
      o8 == StreamInsert(o7, ") via ")
      o9 == StreamInsert(o8, ev.server_proto)
      o10 == StreamInsert(o9, "/")
      o11 == StreamInsert(o10, ev.client_ip)
      o12 == StreamInsert(o11, " on ")
      o13 == StreamInsert(o12, ev.tun_name)
      o14 == StreamInsert(o13, "/")
      o15 == StreamInsert(o14, ev.vpn_ip4)
      o16 == StreamInsert(o15, "/")
      o17 == StreamInsert(o16, ev.vpn_ip6)
  IN  o17

\* Connected::render
Connected_render(ev) ==
  LET o0 == ""
      o1 == StreamInsert(o0, ev.user)
      o2 == StreamInsert(o1, "@")
      o3 == StreamInsert(o2, ev.server_host)
      o4 == StreamInsert(o3, ":")
      o5 == StreamInsert(o4, ev.server_port)
      o6 == StreamInsert(o5, " (")
      o7 == StreamInsert(o6, ev.server_ip)
      o8 == StreamInsert(o7, ") via ")
      o9 == StreamInsert(o8, ev.client_ip)
      o10 == StreamInsert(o9, "/")
      o11 == StreamInsert(o10, ev.server_proto)
      o12 == StreamInsert(o11, " on ")
      o13 == StreamInsert(o12, ev.tun_name)
      o14 == StreamInsert(o13, "/")
      o15 == StreamInsert(o14, ev.vpn_ip4)
      o16 == StreamInsert(o15, "/")
      o17 == StreamInsert(o16, ev.vpn_ip6)
  IN  o17

\* ReasonBase::render
ReasonBase_render(ev) == ev.reason

\* the classes whose final overrider of render() is ReasonBase::render
ReasonBaseClasses ==
  { "ReasonBase", "AuthFailed", "CertVerifyFail", "ClientHalt", "ClientRestart",
    "DynamicChallenge", "ProxyError", "ProxyNeedCreds", "TunSetupFailed",
    "TunIfaceCreate", "EpkiError", "EpkiInvalidAlias" }

\* the virtual call ev->render(): dispatch on the dynamic type
render(ev) ==
  IF ev.cls = "Connected" THEN Connected_render(ev)
  ELSE IF ev.cls \in ReasonBaseClasses THEN ReasonBase_render(ev)
  ELSE Base_render(ev)

\* connected_cast that takes every kind up to CONNECTED for CONNECTED
connected_cast_le(h, p) ==
  IF h[p].id_ <= CONNECTED
    THEN p
    ELSE NULL

\* Base::connected_cast, with this = the pointer p: the same address, typed
\* const Connected*, or NULL
connected_cast(h, p) ==
  IF h[p].id_ = CONNECTED
    THEN p
    ELSE NULL

-----------------------------------------------------------------------------
(* Construction.  new T(...) places the object in the next free heap cell. *)

EmptyEvents ==
  { Resolve, Wait, WaitProxy, Connecting, Reconnecting, GetConfig, AssignIP,
    AddRoutes, Pause, Resume, Disconnected, ConnectionTimeout, InactiveTimeout }

ReasonEvents(reason) ==
  { AuthFailed(reason), CertVerifyFail(reason), ClientHalt(reason),
    ClientRestart(reason), DynamicChallenge(reason), ProxyError(reason),
    ProxyNeedCreds(reason), TunSetupFailed(reason), TunIfaceCreate(reason),
    EpkiError(reason), EpkiInvalidAlias(reason) }

\* the Type values handed to the public constructors of Base and ReasonBase:
\* the kinds next to the tests of the code, and the ordinals past the last kind
DirectTypes == {CONNECTED, RESUME, AUTH_FAILED} \cup (N_TYPES..MaxOrdinal)

New(ev, arg) ==
  /\ Len(heap) < MaxEvents
  /\ heap' = Append(heap, ev)
  /\ ret' = [op |-> "new", self |-> Len(heap) + 1, val |-> arg]
  /\ UNCHANGED <<observed, pushed, calls, nwrites>>

\* new Resolve(), new Wait(), ... new InactiveTimeout()
New_Empty == \E ev \in EmptyEvents : New(ev, "")

\* new Connected()
New_Connected == New(Connected, "")

\* new AuthFailed(reason), ... new EpkiInvalidAlias(reason)
New_Reason == \E reason \in ReasonTexts : \E ev \in ReasonEvents(reason) : New(ev, reason)

\* new Base(id): the constructor of Base is public
New_Base == \E t \in DirectTypes : New(Base(t), "")

\* new ReasonBase(id, reason): ReasonBase is a struct with a public constructor
New_ReasonBase ==
  \E t \in DirectTypes : \E reason \in ReasonTexts : New(ReasonBase(t, reason), reason)

-----------------------------------------------------------------------------
(* Assignment to the public data members.  Connected() takes no arguments: *)
(* its nine members are filled in by assignment after construction.        *)

Assign_field(p, f, v) ==
  /\ heap[p].cls = "Connected"
  /\ nwrites < MaxWrites
  /\ heap' = [heap EXCEPT ![p][f] = v]
  /\ nwrites' = nwrites + 1
  /\ ret' = [op |-> "assign", self |-> p, val |-> v]
  /\ UNCHANGED <<observed, pushed, calls>>

Assign_reason(p, v) ==
  /\ heap[p].cls \in ReasonBaseClasses
  /\ nwrites < MaxWrites
  /\ heap' = [heap EXCEPT ![p].reason = v]
  /\ nwrites' = nwrites + 1
  /\ ret' = [op |-> "assign", self |-> p, val |-> v]
  /\ UNCHANGED <<observed, pushed, calls>>

-----------------------------------------------------------------------------
(* Calls of the const member functions through a Base::Ptr *)

Call(p, f, result) ==
  /\ ret' = [op |-> f, self |-> p, val |-> result]
  /\ UNCHANGED <<heap, observed, pushed, calls, nwrites>>

Call_id(p) == Call(p, "id", id(heap[p]))

Call_name(p) == Call(p, "name", name(heap[p]))

Call_is_error(p) == Call(p, "is_error", is_error(heap[p]))

\* render() that moves the reason out of the event it renders
Call_render_moving(p) ==
  /\ ret' = [op |-> "render", self |-> p, val |-> render(heap[p])]
  /\ heap' = IF "reason" \in DOMAIN heap[p]
              THEN [heap EXCEPT ![p].reason = ""]
              ELSE heap
  /\ UNCHANGED <<observed, pushed, calls, nwrites>>

Call_render(p) == Call(p, "render", render(heap[p]))

Call_connected_cast(p) == Call(p, "connected_cast", connected_cast(heap, p))

-----------------------------------------------------------------------------
(* class Queue.  add_event is pure virtual: the sink behind it is the      *)
(* consumer's.  It is given the shared pointer, not a copy of the event,   *)
(* and the consumer observes the event it points to.  pushed remembers the *)
(* value the event had at the call, calls counts the invocations.          *)

\* a sink that drops the event while it still holds an earlier one
add_event_dropping(producer, event) ==
  /\ calls < MaxCalls
  /\ observed' = IF observed = << >> THEN Append(observed, event) ELSE observed
  /\ pushed' = IF observed = << >> THEN Append(pushed, heap[event]) ELSE pushed
  /\ calls' = calls + 1
  /\ ret' = [op |-> "add_event", self |-> event, val |-> producer]
  /\ UNCHANGED <<heap, nwrites>>

add_event(producer, event) ==
  /\ calls < MaxCalls
  /\ observed' = Append(observed, event)
  /\ pushed' = Append(pushed, heap[event])
  /\ calls' = calls + 1
  /\ ret' = [op |-> "add_event", self |-> event, val |-> producer]
  /\ UNCHANGED <<heap, nwrites>>

-----------------------------------------------------------------------------
(* The specification of the event objects and the sink *)

NoCall == [op |-> "none", self |-> NULL, val |-> ""]

Init ==
  /\ heap = << >>
  /\ observed = << >>
  /\ pushed = << >>
  /\ calls = 0
  /\ nwrites = 0
  /\ ret = NoCall

Next ==
  \/ New_Empty
  \/ New_Connected
  \/ New_Reason
  \/ New_Base
  \/ New_ReasonBase
  \/ \E p \in DOMAIN heap : \E f \in ConnectedFields : \E v \in FieldTexts : Assign_field(p, f, v)
  \/ \E p \in DOMAIN heap : \E v \in ReasonTexts : Assign_reason(p, v)
  \/ \E p \in DOMAIN heap : Call_id(p)
  \/ \E p \in DOMAIN heap : Call_name(p)
  \/ \E p \in DOMAIN heap : Call_is_error(p)
  \/ \E p \in DOMAIN heap : Call_render(p)
  \/ \E p \in DOMAIN heap : Call_connected_cast(p)

Spec == Init /\ [][Next]_vars

-----------------------------------------------------------------------------
(* The producers and the sink: events are constructed, filled in and       *)
(* handed to add_event by any producer in any order                        *)

NextSink ==
  \/ New_Empty
  \/ New_Connected
  \/ New_Reason
  \/ New_Base
  \/ New_ReasonBase
  \/ \E p \in DOMAIN heap : \E f \in ConnectedFields : \E v \in FieldTexts : Assign_field(p, f, v)
  \/ \E p \in DOMAIN heap : \E v \in ReasonTexts : Assign_reason(p, v)
  \/ \E producer \in Producers : \E p \in DOMAIN heap : add_event(producer, p)

SpecSink == Init /\ [][NextSink]_vars

-----------------------------------------------------------------------------
(* Connected::render as a function of the nine members: every assignment   *)
(* of the members from RenderTexts, and the connection of the example      *)

ExampleConnected ==
  [ Connected EXCEPT
      !.user = "alice", !.server_host = "vpn.example.com", !.server_port = "443",
      !.server_ip = "203.0.113.5", !.client_ip = "198.51.100.9",
      !.server_proto = "TCPv4", !.tun_name = "tun0", !.vpn_ip4 = "10.8.0.2",
      !.vpn_ip6 = "" ]

Populated ==
  { [ cls |-> "Connected", id_ |-> Connected.id_,
      user |-> t[1], server_host |-> t[2], server_port |-> t[3],
      server_proto |-> t[4], server_ip |-> t[5], vpn_ip4 |-> t[6],
      vpn_ip6 |-> t[7], client_ip |-> t[8], tun_name |-> t[9] ] :
    t \in [1..9 -> RenderTexts] } \cup {ExampleConnected}

InitRender ==
  /\ heap \in {<<c>> : c \in Populated}
  /\ observed = << >>
  /\ pushed = << >>
  /\ calls = 0
  /\ nwrites = 0
  /\ ret = NoCall

NextRender == \E p \in DOMAIN heap : Call_render(p)

SpecRender == InitRender /\ [][NextRender]_vars

-----------------------------------------------------------------------------
(* The classes and kinds the properties speak of *)

EmptyVariants ==
  { "Resolve", "Wait", "WaitProxy", "Connecting", "Reconnecting", "GetConfig",
    "AssignIP", "AddRoutes", "Pause", "Resume", "Disconnected",
    "ConnectionTimeout", "InactiveTimeout" }

ReasonVariants ==
  { "AuthFailed", "CertVerifyFail", "ClientHalt", "ClientRestart",
    "DynamicChallenge", "ProxyError", "ProxyNeedCreds", "TunSetupFailed",
    "TunIfaceCreate", "EpkiError", "EpkiInvalidAlias" }

NamedVariants == EmptyVariants \cup ReasonVariants \cup {"Connected"}

StatusKinds ==
  { DISCONNECTED, CONNECTED, RECONNECTING, RESOLVE, WAIT, WAIT_PROXY,
    CONNECTING, GET_CONFIG, ASSIGN_IP, ADD_ROUTES, PAUSE, RESUME }

ErrorKinds ==
  { AUTH_FAILED, CERT_VERIFY_FAIL, CLIENT_HALT, CLIENT_RESTART,
    CONNECTION_TIMEOUT, INACTIVE_TIMEOUT, DYNAMIC_CHALLENGE, PROXY_NEED_CREDS,
    PROXY_ERROR, TUN_SETUP_FAILED, TUN_IFACE_CREATE, EPKI_ERROR,
    EPKI_INVALID_ALIAS }

DeclaredKinds == StatusKinds \cup ErrorKinds

\* the identifier of each declared kind
KindIdentifier ==
  [ k \in DeclaredKinds |->
      CASE k = DISCONNECTED -> "DISCONNECTED"
        [] k = CONNECTED -> "CONNECTED"
        [] k = RECONNECTING -> "RECONNECTING"
        [] k = RESOLVE -> "RESOLVE"
        [] k = WAIT -> "WAIT"
        [] k = WAIT_PROXY -> "WAIT_PROXY"
        [] k = CONNECTING -> "CONNECTING"
        [] k = GET_CONFIG -> "GET_CONFIG"
        [] k = ASSIGN_IP -> "ASSIGN_IP"
        [] k = ADD_ROUTES -> "ADD_ROUTES"
        [] k = PAUSE -> "PAUSE"
        [] k = RESUME -> "RESUME"
        [] k = AUTH_FAILED -> "AUTH_FAILED"
        [] k = CERT_VERIFY_FAIL -> "CERT_VERIFY_FAIL"
        [] k = CLIENT_HALT -> "CLIENT_HALT"
        [] k = CLIENT_RESTART -> "CLIENT_RESTART"
        [] k = CONNECTION_TIMEOUT -> "CONNECTION_TIMEOUT"
        [] k = INACTIVE_TIMEOUT -> "INACTIVE_TIMEOUT"
        [] k = DYNAMIC_CHALLENGE -> "DYNAMIC_CHALLENGE"
        [] k = PROXY_NEED_CREDS -> "PROXY_NEED_CREDS"
        [] k = PROXY_ERROR -> "PROXY_ERROR"
        [] k = TUN_SETUP_FAILED -> "TUN_SETUP_FAILED"
        [] k = TUN_IFACE_CREATE -> "TUN_IFACE_CREATE"
        [] k = EPKI_ERROR -> "EPKI_ERROR"
        [] k = EPKI_INVALID_ALIAS -> "EPKI_INVALID_ALIAS" ]

\* the kind that has the name of each Reason variant
KindOfReasonVariant ==
  [ c \in ReasonVariants |->
      CASE c = "AuthFailed" -> AUTH_FAILED
        [] c = "CertVerifyFail" -> CERT_VERIFY_FAIL
        [] c = "ClientHalt" -> CLIENT_HALT
        [] c = "ClientRestart" -> CLIENT_RESTART
        [] c = "DynamicChallenge" -> DYNAMIC_CHALLENGE
        [] c = "ProxyError" -> PROXY_ERROR
        [] c = "ProxyNeedCreds" -> PROXY_NEED_CREDS
        [] c = "TunSetupFailed" -> TUN_SETUP_FAILED
        [] c = "TunIfaceCreate" -> TUN_IFACE_CREATE
        [] c = "EpkiError" -> EPKI_ERROR
        [] c = "EpkiInvalidAlias" -> EPKI_INVALID_ALIAS ]

\* the last operation was the member function f, called on an event
Called(f) == ret.op = f /\ ret.self \in DOMAIN heap

-----------------------------------------------------------------------------
(* C1 *)

\* C1: is_error() on an event of kind k is true if and only if the ordinal of k
\* is at least that of AUTH_FAILED: true for each of the 13 kinds
\* AUTH_FAILED..EPKI_INVALID_ALIAS, false for each of the 12 kinds
\* DISCONNECTED..RESUME, and the class of the event plays no part.
C1_IsErrorIsThreshold ==
  /\ Cardinality(ErrorKinds) = 13
  /\ Cardinality(StatusKinds) = 12
  /\ \A p \in DOMAIN heap :
       /\ heap[p].id_ \in ErrorKinds => is_error(heap[p])
       /\ heap[p].id_ \in StatusKinds => ~is_error(heap[p])
       /\ is_error(heap[p]) <=> heap[p].id_ >= AUTH_FAILED
  /\ Called("is_error") => (ret.val <=> heap[ret.self].id_ \notin StatusKinds)

C1_Witness ==
  /\ Called("is_error")
  /\ ret.val
  /\ heap[ret.self].id_ = AUTH_FAILED

-----------------------------------------------------------------------------
(* C2 *)

\* C2: event_name is total: for each of the 25 declared kinds it is the kind's
\* identifier (the table has one entry per kind, in the order of the
\* enumeration), and for an ordinal past the declared kinds it is
\* "UNKNOWN_EVENT_TYPE".
C2_EventNameTotal ==
  /\ Len(names) = Cardinality(DeclaredKinds)
  /\ Cardinality(DeclaredKinds) = 25
  /\ \A p \in DOMAIN heap :
       IF heap[p].id_ \in DeclaredKinds
         THEN name(heap[p]) = KindIdentifier[heap[p].id_]
         ELSE name(heap[p]) = "UNKNOWN_EVENT_TYPE"
  /\ Called("name") /\ heap[ret.self].id_ \notin DeclaredKinds
       => ret.val = "UNKNOWN_EVENT_TYPE"
  /\ Called("name") /\ heap[ret.self].id_ \in DeclaredKinds
       => ret.val = KindIdentifier[heap[ret.self].id_]

C2_Witness ==
  /\ Called("name")
  /\ heap[ret.self].id_ = N_TYPES
  /\ ret.val = "UNKNOWN_EVENT_TYPE"

-----------------------------------------------------------------------------
(* C3 *)

\* C3: connected_cast() returns a non-null view (the event itself) if and only
\* if the kind of the event is CONNECTED; on every Empty-payload and
\* Reason-payload variant it returns NULL.
C3_CastIffConnectedKind ==
  /\ \A p \in DOMAIN heap :
       /\ connected_cast(heap, p) # NULL <=> heap[p].id_ = CONNECTED
       /\ heap[p].cls \in EmptyVariants \cup ReasonVariants => connected_cast(heap, p) = NULL
       /\ heap[p].cls = "Connected" => connected_cast(heap, p) = p
  /\ Called("connected_cast") =>
       ret.val = IF heap[ret.self].id_ = CONNECTED THEN ret.self ELSE NULL

C3_Witness ==
  /\ Called("connected_cast")
  /\ ret.val # NULL
  /\ heap[ret.self].cls = "Connected"

-----------------------------------------------------------------------------
(* C4 *)

HasReason(ev) == "reason" \in DOMAIN ev

\* C4 as stated: every event whose kind is in the error band carries a Reason
\* payload that render() returns, and no Empty-payload variant has a kind of
\* the error band.
C4_Original ==
  \A p \in DOMAIN heap :
    /\ is_error(heap[p]) => HasReason(heap[p]) /\ render(heap[p]) = heap[p].reason
    /\ heap[p].cls \in EmptyVariants => ~is_error(heap[p])

\* C4: every event constructed as one of the named variants whose kind is in
\* the error band carries a Reason payload that render() returns, except the
\* kinds CONNECTION_TIMEOUT and INACTIVE_TIMEOUT: these are the kinds of the
\* Empty-payload variants ConnectionTimeout and InactiveTimeout, which render
\* as the empty string; no other Empty-payload variant has an error kind.
C4_ErrorVariantsCarryReasonExceptTimeouts ==
  \A p \in DOMAIN heap :
    heap[p].cls \in NamedVariants /\ is_error(heap[p]) =>
      IF heap[p].id_ \in {CONNECTION_TIMEOUT, INACTIVE_TIMEOUT}
        THEN /\ heap[p].cls \in {"ConnectionTimeout", "InactiveTimeout"}
             /\ ~HasReason(heap[p])
             /\ render(heap[p]) = ""
        ELSE /\ heap[p].cls \in ReasonVariants
             /\ HasReason(heap[p])
             /\ render(heap[p]) = heap[p].reason

C4_Witness ==
  /\ Called("render")
  /\ heap[ret.self].cls = "ConnectionTimeout"
  /\ is_error(heap[ret.self])
  /\ ret.val = ""

-----------------------------------------------------------------------------
(* C5 *)

\* C5 as stated: once an event is constructed, nothing changes its kind or any
\* of its payload fields.
C5_Original ==
  [][\A p \in DOMAIN heap : heap'[p] = heap[p]]_vars

\* C5: once an event is constructed its kind (and its class) never changes and
\* no member function changes any of its fields; the reason member and the
\* nine members of Connected are public, and a field changes only in a step
\* that assigns to it (Connected is constructed with nine empty members and
\* filled in afterwards), so render() returns the same text between two such
\* assignments.
C5_KindFixedFieldsChangeOnlyByAssignment ==
  [][\A p \in DOMAIN heap :
       /\ heap'[p].id_ = heap[p].id_
       /\ heap'[p].cls = heap[p].cls
       /\ DOMAIN heap'[p] = DOMAIN heap[p]
       /\ heap'[p] # heap[p] => ret'.op = "assign" /\ ret'.self = p
       /\ ret'.op # "assign" => render(heap'[p]) = render(heap[p])]_vars

C5_Witness ==
  /\ Called("render")
  /\ heap[ret.self].cls = "Connected"
  /\ heap[ret.self].user = "x"
  /\ id(heap[ret.self]) = CONNECTED
  /\ nwrites >= 1

-----------------------------------------------------------------------------
(* C6 *)

\* the text the format prescribes for a Connected event
ConnectedText(ev) ==
  ev.user \o "@" \o ev.server_host \o ":" \o ev.server_port \o " (" \o
  ev.server_ip \o ") via " \o ev.client_ip \o "/" \o ev.server_proto \o
  " on " \o ev.tun_name \o "/" \o ev.vpn_ip4 \o "/" \o ev.vpn_ip6

ExampleText ==
  "alice@vpn.example.com:443 (203.0.113.5) via 198.51.100.9/TCPv4 on tun0/10.8.0.2/"

-----------------------------------------------------------------------------
(* C7 *)

\* C7: for each of the 11 Reason-payload variants and every reason text r,
\* the variant constructed with r has the kind of the same name and render()
\* on it returns exactly r.
C7_ReasonVariantsRenderReason ==
  /\ Cardinality(ReasonVariants) = 11
  /\ \A p \in DOMAIN heap :
       heap[p].cls \in ReasonVariants =>
         /\ id(heap[p]) = KindOfReasonVariant[heap[p].cls]
         /\ name(heap[p]) = KindIdentifier[KindOfReasonVariant[heap[p].cls]]
         /\ render(heap[p]) = heap[p].reason
  /\ Called("new") /\ heap[ret.self].cls \in ReasonVariants =>
       render(heap[ret.self]) = ret.val
  /\ Called("render") /\ heap[ret.self].cls \in ReasonVariants =>
       ret.val = heap[ret.self].reason

C7_Witness ==
  /\ Called("new")
  /\ heap[ret.self].cls = "ProxyNeedCreds"
  /\ ret.val = "bad password"
  /\ render(heap[ret.self]) = "bad password"
  /\ id(heap[ret.self]) = PROXY_NEED_CREDS

-----------------------------------------------------------------------------
(* C8 *)

\* C8: render() on every Empty-payload variant returns the empty string.
C8_EmptyVariantsRenderEmpty ==
  /\ Cardinality(EmptyVariants) = 13
  /\ \A p \in DOMAIN heap :
       heap[p].cls \in EmptyVariants => render(heap[p]) = ""
  /\ Called("render") /\ heap[ret.self].cls \in EmptyVariants => ret.val = ""

C8_Witness ==
  /\ Called("render")
  /\ heap[ret.self].cls = "InactiveTimeout"
  /\ ret.val = ""

-----------------------------------------------------------------------------
(* C9 *)

-----------------------------------------------------------------------------
(* C10 *)

\* C10: every event object whose kind is CONNECTED is an instance of
\* Connected with its nine members, so that the view connected_cast() returns
\* is always a Connected object.
C10_ConnectedKindIsConnectedVariant ==
  \A p \in DOMAIN heap :
    /\ id(heap[p]) = CONNECTED => heap[p].cls = "Connected"
    /\ connected_cast(heap, p) # NULL =>
         /\ heap[connected_cast(heap, p)].cls = "Connected"
         /\ ConnectedFields \subseteq DOMAIN heap[connected_cast(heap, p)]

=============================================================================
